---- MODULE Spec2Model ----
(***************************************************************************)
(* Model of the vocabulary-PDF study application: the chapter parser       *)
(* parse_text_to_chapters of src/pdf_parser.py.                            *)
(*                                                                         *)
(* A Python string is a sequence of characters; a character is a           *)
(* one-character TLA+ string.  Characters outside ASCII are written as     *)
(* tokens: "ndash" is U+2013 (en-dash), "U+B2E8" and "U+C6D0" are the two  *)
(* Hangul syllables of the keyword.                                        *)
(***************************************************************************)
EXTENDS Integers, Sequences, FiniteSets, TLC

\* One call of parse_text_to_chapters: its parameter, position, locals and value.
VARIABLES raw_text, pc, lines, idx, chapters, current_chapter_name, current_words, result

\* Two request threads that call parse_text_to_chapters: the frame of each
\* thread's call, and the number of calls each thread has made.
VARIABLES calls, ncalls

\* One call of generate_quiz_questions and the grading of the questions it
\* returned: parameters, position, the list being built, the submitted form,
\* the score and the per-question results.
VARIABLES words_in_chapter, num_options, qpc, qidx, questions, user_answers, score, results

\* One browser session of the web application: the session store, the
\* request being handled, the response to the last request, and whether the
\* last request called the parser.
VARIABLES session, request, response, parser_invoked

\* History of the session: the text extracted from the most recent upload
\* that got past the checks and the extraction, None when there is none.
VARIABLES last_processed

parserVars == <<raw_text, pc, lines, idx, chapters, current_chapter_name, current_words, result>>

callVars == <<calls, ncalls>>

quizVars == <<words_in_chapter, num_options, qpc, qidx, questions, user_answers, score, results>>

appVars == <<session, request, response, parser_invoked, last_processed>>

nonParserVars == <<callVars, quizVars, appVars>>

nonCallVars == <<parserVars, quizVars, appVars>>

nonQuizVars == <<parserVars, callVars, appVars>>

nonAppVars == <<parserVars, callVars, quizVars>>

vars == <<parserVars, nonParserVars>>

(***************************************************************************)
(* Bounds of the checked inputs.                                           *)
(***************************************************************************)
MaxLines == 3

\* Longest run of optional whitespace around the separator of a term line.
MaxPad == 1

\* Lines of a text parsed by one of two concurrent calls, and calls per thread.
MaxCallLines == 2

MaxCalls == 2

(***************************************************************************)
(* Characters and character classes of the two regular expressions.        *)
(***************************************************************************)
Upper == <<"A", "B", "C", "D", "E", "F", "G", "H", "I", "J", "K", "L", "M", "N", "O", "P", "Q", "R", "S", "T", "U", "V", "W", "X", "Y", "Z">>

Lower == <<"a", "b", "c", "d", "e", "f", "g", "h", "i", "j", "k", "l", "m", "n", "o", "p", "q", "r", "s", "t", "u", "v", "w", "x", "y", "z">>

Digits == <<"0", "1", "2", "3", "4", "5", "6", "7", "8", "9">>

Hangul == {"U+B2E8", "U+C6D0"}

Range(s) == {s[i] : i \in DOMAIN s}

SetMin(S) == CHOOSE x \in S : \A y \in S : x <= y

SetMax(S) == CHOOSE x \in S : \A y \in S : x >= y

\* re.IGNORECASE: the case folding of the ASCII letters.
CaseFold == [c \in Range(Upper) |-> Lower[CHOOSE i \in DOMAIN Upper : Upper[i] = c]]

ToLower(c) == IF c \in DOMAIN CaseFold THEN CaseFold[c] ELSE c

\* \s and str.strip(): whitespace.
SpaceChars == {" ", "\t", "\n"}

IsSpace(c) == c \in SpaceChars

\* \w (with \d and the Hangul block, both inside \w for str patterns).
WordChars == Range(Upper) \cup Range(Lower) \cup Range(Digits) \cup Hangul \cup {"_"}

\* [\w\d.\-\s()\[\]'] of chapter_title_pattern.
LabelChars == WordChars \cup SpaceChars \cup {".", "-", "(", ")", "[", "]", "'"}

\* [\w\s<Hangul>()\[\]'\".,] of word_def_pattern.
TermChars == WordChars \cup SpaceChars \cup {"(", ")", "[", "]", "'", "\"", ".", ","}

\* [\w\s<Hangul>()\[\]'\".,;!?] of word_def_pattern.
DefChars == TermChars \cup {";", "!", "?"}

\* (?:[:\-ndash]|(?<=\S)\t) of word_def_pattern, at position p of line.
IsSeparatorAt(line, p) ==
    \/ line[p] \in {":", "-", "ndash"}
    \/ line[p] = "\t" /\ p > 1 /\ ~IsSpace(line[p - 1])

\* str.strip().
Strip(s) ==
    LET ns == {i \in DOMAIN s : ~IsSpace(s[i])}
    IN  IF ns = {} THEN <<>> ELSE SubSeq(s, SetMin(ns), SetMax(ns))

\* str.endswith(c) for a one-character c.
EndsWith(s, c) == Len(s) > 0 /\ s[Len(s)] = c

\* s[:-1].
DropLast(s) == SubSeq(s, 1, Len(s) - 1)

\* str.splitlines() (line break "\n").
RECURSIVE SplitLines(_)
SplitLines(t) ==
    IF t = <<>> THEN <<>>
    ELSE LET nl == {i \in DOMAIN t : t[i] = "\n"}
         IN  IF nl = {} THEN <<t>>
             ELSE <<SubSeq(t, 1, SetMin(nl) - 1)>> \o SplitLines(SubSeq(t, SetMin(nl) + 1, Len(t)))

\* Length of the longest run of characters of the class cls in s that starts
\* at position i: what a greedy quantifier over the class takes there.
RunLen(s, i, cls) ==
    LET stops == {j \in i..Len(s) : s[j] \notin cls}
    IN  IF stops = {} THEN Len(s) - i + 1 ELSE SetMin(stops) - i

NoMatch == [matched |-> FALSE, g1 |-> <<>>, g2 |-> <<>>]

KeywordLatin == <<"c", "h", "a", "p", "t", "e", "r">>

KeywordHangul == <<"U+B2E8", "U+C6D0">>

HasPrefixFolded(line, kw) ==
    /\ Len(line) >= Len(kw)
    /\ \A i \in DOMAIN kw : ToLower(line[i]) = kw[i]

\* ^(?:Chapter|<Hangul keyword>) under re.IGNORECASE: the length matched, 0 for none.
KeywordLen(line) ==
    IF HasPrefixFolded(line, KeywordLatin) THEN Len(KeywordLatin)
    ELSE IF HasPrefixFolded(line, KeywordHangul) THEN Len(KeywordHangul)
    ELSE 0

\* chapter_title_pattern.match(line): keyword, \s* (greedy), group 1 = one or
\* more label characters (greedy), [:ndash\s]*? (lazy: takes nothing, since
\* (.*) accepts any rest), group 2 = the rest of the line.  When no label
\* character follows the whitespace, \s* gives its last character back to group 1.
ChapterTitleMatch(line) ==
    LET k == KeywordLen(line)
        rest == SubSeq(line, k + 1, Len(line))
        ws == RunLen(rest, 1, SpaceChars)
        run == RunLen(rest, ws + 1, LabelChars)
    IN  IF k = 0 THEN NoMatch
        ELSE IF run > 0
             THEN [matched |-> TRUE, g1 |-> SubSeq(rest, ws + 1, ws + run),
                   g2 |-> SubSeq(rest, ws + run + 1, Len(rest))]
        ELSE IF ws > 0
             THEN [matched |-> TRUE, g1 |-> <<rest[ws]>>, g2 |-> SubSeq(rest, ws + 1, Len(rest))]
        ELSE NoMatch

\* word_def_pattern.match(line): group 1 = n >= 1 term characters (lazy: the
\* least n that lets the rest match), \s* = m whitespace characters (greedy:
\* the greatest m for that n), the separator at n+m+1, \s* and group 2 = one
\* or more definition characters (greedy), which needs one definition
\* character right after the separator.
WordDefSplits(line) ==
    LET terms == RunLen(line, 1, TermChars)
    IN  {nm \in (1..terms) \X (0..Len(line)) :
            /\ nm[1] + nm[2] + 2 <= Len(line)
            /\ nm[2] <= RunLen(line, nm[1] + 1, SpaceChars)
            /\ IsSeparatorAt(line, nm[1] + nm[2] + 1)
            /\ line[nm[1] + nm[2] + 2] \in DefChars}

WordDefMatch(line) ==
    LET splits == WordDefSplits(line)
    IN  IF splits = {} THEN NoMatch
        ELSE LET n == SetMin({nm[1] : nm \in splits})
                 m == SetMax({nm[2] : nm \in {x \in splits : x[1] = n}})
                 p == n + m + 1
                 ws == RunLen(line, p + 1, SpaceChars)
                 run == RunLen(line, p + ws + 1, DefChars)
             IN  [matched |-> TRUE, g1 |-> SubSeq(line, 1, n),
                  g2 |-> IF run > 0 THEN SubSeq(line, p + ws + 1, p + ws + run)
                         ELSE <<line[p + ws]>>]

(***************************************************************************)
(* parse_text_to_chapters.                                                 *)
(***************************************************************************)
DefaultChapter == <<"D", "e", "f", "a", "u", "l", "t", " ", "C", "h", "a", "p", "t", "e", "r">>

UnnamedPrefix == <<"U", "n", "n", "a", "m", "e", "d", " ", "C", "h", "a", "p", "t", "e", "r", " ">>

\* str(n) for n >= 0.
RECURSIVE Decimal(_)
Decimal(n) == IF n < 10 THEN <<Digits[n + 1]>> ELSE Decimal(n \div 10) \o <<Digits[(n % 10) + 1]>>

\* f"Unnamed Chapter {len(chapters) + 1}"
UnnamedChapter(chs) == UnnamedPrefix \o Decimal(Len(chs) + 1)

Chapter(name, words) == [name |-> name, words |-> words]

EndsWithSeparator(s) == EndsWith(s, ":") \/ EndsWith(s, "ndash") \/ EndsWith(s, "-")

\* FlushOnHeading that drops a chapter without words.
FlushOnHeading_OnlyWithWords(chs, name, words) ==
    IF words # <<>> THEN Append(chs, Chapter(name, words)) ELSE chs

\* Lines 64-72: save the chapter accumulated so far when a heading is found.
FlushOnHeading(chs, name, words) ==
    IF words # <<>> \/ name # DefaultChapter
    THEN IF chs = <<>> /\ name = DefaultChapter /\ words = <<>>
         THEN IF words # <<>> THEN Append(chs, Chapter(name, words)) ELSE chs
         ELSE IF name # DefaultChapter \/ words # <<>>
              THEN Append(chs, Chapter(name, words))
              ELSE chs
    ELSE chs

\* Lines 76-94: the name of the chapter a heading starts; chs is the list of
\* chapters after the flush.
HeadingName(m, chs) ==
    LET g1 == Strip(m.g1)
        g2 == Strip(m.g2)
        name == IF g2 # <<>>
                THEN LET p == IF EndsWithSeparator(g1) THEN Strip(DropLast(g1)) ELSE g1
                     IN  IF p # <<>> THEN p \o <<":", " ">> \o g2 ELSE g2
                ELSE IF g1 # <<>>
                     THEN IF EndsWithSeparator(g1) THEN Strip(DropLast(g1)) ELSE g1
                     ELSE UnnamedChapter(chs)
    IN  IF name = <<>> THEN UnnamedChapter(chs) ELSE name

\* RecordWord that skips a term already in the list.
RecordWord_Dedup(words, m) ==
    LET word == Strip(m.g1)
        definition == Strip(m.g2)
    IN  IF word # <<>> /\ definition # <<>> /\ \A j \in DOMAIN words : words[j][1] # word
        THEN Append(words, <<word, definition>>)
        ELSE words

\* RecordWord without the test that both parts are non-empty.
RecordWord_NoCheck(words, m) == Append(words, <<Strip(m.g1), Strip(m.g2)>>)

\* RecordWord that keeps only the newest pair.
RecordWord_Overwrite(words, m) ==
    LET word == Strip(m.g1)
        definition == Strip(m.g2)
    IN  IF word # <<>> /\ definition # <<>> THEN <<<<word, definition>>>> ELSE words

\* Lines 100-103: the term list after a line that word_def_pattern matched.
RecordWord(words, m) ==
    LET word == Strip(m.g1)
        definition == Strip(m.g2)
    IN  IF word # <<>> /\ definition # <<>> THEN Append(words, <<word, definition>>) ELSE words

\* Classify with the term-pair pattern tried before the heading pattern.
Classify_TermFirst(line) ==
    IF line = <<>> THEN "blank"
    ELSE IF WordDefMatch(line).matched THEN "worddef"
    ELSE IF ChapterTitleMatch(line).matched THEN "heading"
    ELSE "ignored"

\* Lines 57-99: which branch of the loop body a (stripped) line takes.
Classify(line) ==
    IF line = <<>> THEN "blank"
    ELSE IF ChapterTitleMatch(line).matched THEN "heading"
    ELSE IF WordDefMatch(line).matched THEN "worddef"
    ELSE "ignored"

Result(value) == [raised |-> FALSE, value |-> value]

IndexError == [raised |-> TRUE, value |-> <<>>]

IsEmptyDefault(ch) == ch.name = DefaultChapter /\ ch.words = <<>>

\* Finish that always appends the last chapter and returns the list as it is.
Finish_AlwaysAppend(chs, name, words) == Result(Append(chs, Chapter(name, words)))

\* Finish with chapters[0] read before any check of the length of the list.
Finish_Unguarded(chs, name, words) ==
    LET all == IF name # DefaultChapter \/ words # <<>>
               THEN Append(chs, Chapter(name, words))
               ELSE chs
    IN  IF all = <<>> THEN IndexError
        ELSE IF IsEmptyDefault(all[1]) THEN Result(Tail(all))
        ELSE Result(all)

\* Lines 111-125: the flush at the end of the input and the post-processing.
Finish(chs, name, words) ==
    LET all == IF name # DefaultChapter \/ words # <<>>
               THEN Append(chs, Chapter(name, words))
               ELSE chs
    IN  IF all = <<>> /\ name = DefaultChapter /\ words = <<>> THEN Result(<<>>)
        ELSE IF Len(all) > 1 /\ IsEmptyDefault(all[1]) THEN Result(Tail(all))
        ELSE IF Len(all) = 1 /\ IsEmptyDefault(all[1]) THEN Result(<<>>)
        ELSE Result(all)

(***************************************************************************)
(* The inputs: texts of at most MaxLines lines drawn from Lines, and the   *)
(* documented example.                                                     *)
(***************************************************************************)
LnChapter1A == <<"C", "h", "a", "p", "t", "e", "r", " ", "1", ":", " ", "A">>

LnFooBar == <<"F", "o", "o", " ", ":", " ", "B", "a", "r">>

LnChapter2B == <<"C", "h", "a", "p", "t", "e", "r", " ", "2", ":", " ", "B">>

LnBazQux == <<"B", "a", "z", " ", ":", " ", "Q", "u", "x">>

LnKeywordOnly == <<"C", "h", "a", "p", "t", "e", "r">>

LnChapterDash == <<"C", "h", "a", "p", "t", "e", "r", " ", "-">>

LnChapter2 == <<"C", "h", "a", "p", "t", "e", "r", " ", "2">>

LnDanwon1 == <<"U+B2E8", "U+C6D0", " ", "1">>

LnChapterDefault == <<"C", "h", "a", "p", "t", "e", "r", " ", "D", "e", "f", "a", "u", "l", "t", " ", "C", "h", "a", "p", "t", "e", "r">>

LnTab == <<"a", "\t", "b">>

LnEmptyDef == <<"a", ":", " ", " ", "#">>

LnNoise == <<"I", "n", "t", "r", "o">>

LnPadded == <<" ", " ", "c", " ", "-", " ", "d", " ", " ">>

LnKeywordColon == <<"C", "h", "a", "p", "t", "e", "r", ":", " ", "x">>

LnSpaces == <<" ", "\t">>

LnBlank == <<>>

Lines ==
    {LnBlank, LnSpaces, LnChapter1A, LnFooBar, LnChapter2B, LnBazQux, LnKeywordOnly,
     LnChapterDash, LnChapter2, LnDanwon1, LnChapterDefault, LnTab, LnEmptyDef, LnNoise,
     LnPadded, LnKeywordColon}

\* "\n".join(ls)
RECURSIVE Join(_)
Join(ls) ==
    IF ls = <<>> THEN <<>>
    ELSE IF Len(ls) = 1 THEN ls[1]
    ELSE ls[1] \o <<"\n">> \o Join(Tail(ls))

ExampleLines == <<LnChapter1A, LnFooBar, LnChapter2B, LnBazQux>>

\* One-line texts "term, whitespace, separator, whitespace, definition".
SepTerms == {<<"a">>, <<"x", " ", "y">>}

SepDefs == {<<"b">>, <<"c", " ", "d">>}

Pads == UNION {[1..n -> {" ", "\t"}] : n \in 0..MaxPad}

SepLine(t, wb, sep, wa, d) == t \o wb \o <<sep>> \o wa \o d

SepTexts ==
    {SepLine(t, wb, sep, wa, d) :
        t \in SepTerms, wb \in Pads, sep \in {"\t", ":", "-"}, wa \in Pads, d \in SepDefs}

\* Heading lines without a title: the keyword, a label that may be empty,
\* optional whitespace and at most one separator; alone, and after another
\* heading.
HeadLabels == {<<>>, <<"1">>, <<"T", "i", "t", "l", "e">>}

HeadSeps == {<<>>, <<":">>, <<"-">>, <<"ndash">>}

HeadLine(label, wb, sep) == LnKeywordOnly \o <<" ">> \o label \o wb \o sep

HeadLines == {HeadLine(label, wb, sep) : label \in HeadLabels, wb \in Pads, sep \in HeadSeps}

HeadTexts == HeadLines \cup {Join(<<LnChapter2, l>>) : l \in HeadLines}

Inputs ==
    {Join(ls) : ls \in UNION {[1..n -> Lines] : n \in 0..MaxLines}}
        \cup {Join(ExampleLines)} \cup SepTexts \cup HeadTexts

(***************************************************************************)
(* The frames of the calls made by two request threads.  A frame holds the *)
(* parameter, the position and the locals of one call; nothing else is     *)
(* read or written by the function.                                        *)
(***************************************************************************)
Procs == {1, 2}

Frame(text, at) ==
    [raw_text |-> text, pc |-> at, lines |-> <<>>, idx |-> 1, chapters |-> <<>>,
     current_chapter_name |-> <<>>, current_words |-> <<>>, result |-> <<>>]

NoCalls ==
    /\ calls = [p \in Procs |-> Frame(<<>>, "idle")]
    /\ ncalls = [p \in Procs |-> 0]

(***************************************************************************)
(* Values that stand for Python's None and for an absent session key.      *)
(***************************************************************************)
\* None where a string is expected: no Python string is this sequence.
None == <<"None">>

\* generate_quiz_questions has not been called.
NoQuiz ==
    /\ words_in_chapter = <<>>
    /\ num_options = 4
    /\ qpc = "idle"
    /\ qidx = 0
    /\ questions = <<>>
    /\ user_answers = <<>>
    /\ score = 0
    /\ results = <<>>

\* A response that is not a response of the application.
NoResponse == [kind |-> "none"]

\* No request has reached the application and the session is new.
NoApp ==
    /\ session = <<>>
    /\ request = [kind |-> "none"]
    /\ response = NoResponse
    /\ parser_invoked = FALSE
    /\ last_processed = None

(***************************************************************************)
(* The state machine: one call of parse_text_to_chapters(raw_text).        *)
(***************************************************************************)
Init ==
    /\ raw_text \in Inputs
    /\ pc = "call"
    /\ lines = <<>>
    /\ idx = 1
    /\ chapters = <<>>
    /\ current_chapter_name = <<>>
    /\ current_words = <<>>
    /\ result = <<>>
    /\ NoCalls
    /\ NoQuiz
    /\ NoApp

\* Lines 33-34.
ReturnEmptyInput ==
    /\ pc = "call"
    /\ raw_text = <<>>
    /\ result' = <<>>
    /\ pc' = "done"
    /\ UNCHANGED <<raw_text, lines, idx, chapters, current_chapter_name, current_words>>
    /\ UNCHANGED nonParserVars

\* Begin with an initial name that is not the name the flush compares with.
Begin_WrongInitialName ==
    /\ pc = "call"
    /\ raw_text # <<>>
    /\ chapters' = <<>>
    /\ current_chapter_name' = <<"D", "e", "f", "a", "u", "l", "t">>
    /\ current_words' = <<>>
    /\ lines' = SplitLines(raw_text)
    /\ idx' = 1
    /\ pc' = "loop"
    /\ UNCHANGED <<raw_text, result>>
    /\ UNCHANGED nonParserVars

\* Lines 36-41.
Begin ==
    /\ pc = "call"
    /\ raw_text # <<>>
    /\ chapters' = <<>>
    /\ current_chapter_name' = DefaultChapter
    /\ current_words' = <<>>
    /\ lines' = SplitLines(raw_text)
    /\ idx' = 1
    /\ pc' = "loop"
    /\ UNCHANGED <<raw_text, result>>
    /\ UNCHANGED nonParserVars

InLoop == pc = "loop" /\ idx <= Len(lines)

\* Line 57: the line the loop body works on.
CurrentLine == Strip(lines[idx])

\* Lines 57-59.
SkipBlank ==
    /\ InLoop
    /\ Classify(CurrentLine) = "blank"
    /\ idx' = idx + 1
    /\ UNCHANGED <<raw_text, pc, lines, chapters, current_chapter_name, current_words, result>>
    /\ UNCHANGED nonParserVars

\* Lines 61-96.
HeadingLine ==
    /\ InLoop
    /\ Classify(CurrentLine) = "heading"
    /\ LET flushed == FlushOnHeading(chapters, current_chapter_name, current_words)
       IN  /\ chapters' = flushed
           /\ current_chapter_name' = HeadingName(ChapterTitleMatch(CurrentLine), flushed)
    /\ current_words' = <<>>
    /\ idx' = idx + 1
    /\ UNCHANGED <<raw_text, pc, lines, result>>
    /\ UNCHANGED nonParserVars

\* WordDefLine where the list of the chapter emitted last is still the list
\* the pairs are appended to.
WordDefLine_Aliased ==
    /\ pc = "loop" /\ idx <= Len(lines)
    /\ Classify(Strip(lines[idx])) = "worddef"
    /\ current_words' = RecordWord(current_words, WordDefMatch(Strip(lines[idx])))
    /\ chapters' = IF chapters = <<>> THEN chapters
                   ELSE [chapters EXCEPT ![Len(chapters)].words =
                            RecordWord(@, WordDefMatch(Strip(lines[idx])))]
    /\ idx' = idx + 1
    /\ UNCHANGED <<raw_text, pc, lines, current_chapter_name, result>>
    /\ UNCHANGED nonParserVars

\* Lines 97-103.
WordDefLine ==
    /\ InLoop
    /\ Classify(CurrentLine) = "worddef"
    /\ current_words' = RecordWord(current_words, WordDefMatch(CurrentLine))
    /\ idx' = idx + 1
    /\ UNCHANGED <<raw_text, pc, lines, chapters, current_chapter_name, result>>
    /\ UNCHANGED nonParserVars

\* IgnoreLine that starts the term list afresh.
IgnoreLine_ClearsWords ==
    /\ pc = "loop" /\ idx <= Len(lines)
    /\ Classify(Strip(lines[idx])) = "ignored"
    /\ current_words' = <<>>
    /\ idx' = idx + 1
    /\ UNCHANGED <<raw_text, pc, lines, chapters, current_chapter_name, result>>
    /\ UNCHANGED nonParserVars

\* Lines 104-108: a line that matches neither pattern.
IgnoreLine ==
    /\ InLoop
    /\ Classify(CurrentLine) = "ignored"
    /\ idx' = idx + 1
    /\ UNCHANGED <<raw_text, pc, lines, chapters, current_chapter_name, current_words, result>>
    /\ UNCHANGED nonParserVars

\* Lines 111-125.
Return ==
    /\ pc = "loop"
    /\ idx > Len(lines)
    /\ LET r == Finish(chapters, current_chapter_name, current_words)
       IN  /\ pc' = IF r.raised THEN "raised" ELSE "done"
           /\ result' = r.value
    /\ UNCHANGED <<raw_text, lines, idx, chapters, current_chapter_name, current_words>>
    /\ UNCHANGED nonParserVars

Next ==
    \/ ReturnEmptyInput
    \/ Begin
    \/ SkipBlank
    \/ HeadingLine
    \/ WordDefLine
    \/ IgnoreLine
    \/ Return

Spec == Init /\ [][Next]_vars

(***************************************************************************)
(* What the input holds, read off the input text itself.                   *)
(***************************************************************************)
\* The lines of a text as the loop sees them: split and stripped.
StrippedLines(text) == [i \in DOMAIN SplitLines(text) |-> Strip(SplitLines(text)[i])]

IsHeadingLine(l) == l # <<>> /\ ChapterTitleMatch(l).matched

MatchesWordDef(l) == l # <<>> /\ WordDefMatch(l).matched

PairOf(l) == <<Strip(WordDefMatch(l).g1), Strip(WordDefMatch(l).g2)>>

\* A line that is read as a term pair and records one.
IsPairLine(l) ==
    /\ ~IsHeadingLine(l)
    /\ MatchesWordDef(l)
    /\ PairOf(l)[1] # <<>>
    /\ PairOf(l)[2] # <<>>

\* The recorded pairs of a sequence of stripped lines, in input order.
RECURSIVE PairsOf(_)
PairsOf(ls) ==
    IF ls = <<>> THEN <<>>
    ELSE (IF IsPairLine(Head(ls)) THEN <<PairOf(Head(ls))>> ELSE <<>>) \o PairsOf(Tail(ls))

HeadingPositions(ls) == {i \in DOMAIN ls : IsHeadingLine(ls[i])}

IsBlankText(text) == \A i \in DOMAIN text : text[i] \in SpaceChars

IsChapterList(v) ==
    /\ DOMAIN v = 1..Len(v)
    /\ \A i \in DOMAIN v :
        /\ DOMAIN v[i] = {"name", "words"}
        /\ \A j \in DOMAIN v[i].words : Len(v[i].words[j]) = 2

(***************************************************************************)
(* C1: for every input text parse_text_to_chapters terminates and returns  *)
(* a list of chapters without raising: no state is an exception state,     *)
(* every state that is not the return has a next step, every step lowers   *)
(* the number of steps left, and the value returned is a list of chapters. *)
(***************************************************************************)
\* Some branch of the function applies: the guards of the actions of Next.
CanStep ==
    \/ pc = "call" /\ (raw_text = <<>> \/ raw_text # <<>>)
    \/ pc = "loop" /\ idx > Len(lines)
    \/ InLoop /\ Classify(CurrentLine) \in {"blank", "heading", "worddef", "ignored"}

StepsLeft ==
    IF pc = "call" THEN Len(raw_text) + 3
    ELSE IF pc = "loop" THEN Len(lines) - idx + 2
    ELSE 0

C1_TerminatesWithoutRaising ==
    /\ [](/\ pc \in {"call", "loop", "done"}
          /\ (pc = "done" \/ CanStep)
          /\ StepsLeft >= 0
          /\ (pc = "done" => IsChapterList(result)))
    /\ [][StepsLeft' < StepsLeft]_vars

C1_Witness == pc = "done" /\ Len(lines) >= 2 /\ Len(result) >= 2

(***************************************************************************)
(* C2: the result is the empty list for the empty text and for every text  *)
(* made only of whitespace characters and line breaks.                     *)
(***************************************************************************)
C2_BlankTextGivesNoChapters == pc = "done" /\ IsBlankText(raw_text) => result = <<>>

C2_Witness == pc = "done" /\ IsBlankText(raw_text) /\ Len(lines) >= 2 /\ result = <<>>

(***************************************************************************)
(* C3: the four-line example "Chapter 1: A", "Foo : Bar", "Chapter 2: B",  *)
(* "Baz : Qux" parses to the chapter named "Chapter 1: A" with the pair    *)
(* (Foo, Bar) and then the chapter named "Chapter 2: B" with (Baz, Qux).   *)
(***************************************************************************)
ExampleExpected ==
    <<Chapter(LnChapter1A, <<<< <<"F", "o", "o">>, <<"B", "a", "r">> >>>>),
      Chapter(LnChapter2B, <<<< <<"B", "a", "z">>, <<"Q", "u", "x">> >>>>)>>

C3_ExampleNamesChapters ==
    pc = "done" /\ raw_text = Join(ExampleLines) => result = ExampleExpected

(***************************************************************************)
(* C4: an input with at least one line that records a term pair and no     *)
(* heading line gives exactly one chapter, named "Default Chapter", whose   *)
(* term list is all recorded pairs in input order.                         *)
(***************************************************************************)
C4_NoHeadingOneDefaultChapter ==
    LET ls == StrippedLines(raw_text)
    IN  pc = "done" /\ HeadingPositions(ls) = {} /\ PairsOf(ls) # <<>>
            => result = <<Chapter(DefaultChapter, PairsOf(ls))>>

C4_Witness ==
    /\ pc = "done"
    /\ HeadingPositions(StrippedLines(raw_text)) = {}
    /\ Len(PairsOf(StrippedLines(raw_text))) >= 2
    /\ Len(result) = 1
    /\ Len(result[1].words) >= 2

(***************************************************************************)
(* parse_text_to_chapters as a function of the text: the same branches,    *)
(* folded over the lines.                                                  *)
(***************************************************************************)
ParseState(chs, name, words) == [chapters |-> chs, name |-> name, words |-> words]

\* Lines 56-108: one pass of the loop body.
ProcessLine(st, rawline) ==
    LET line == Strip(rawline)
        kind == Classify(line)
    IN  IF kind = "heading"
        THEN LET flushed == FlushOnHeading(st.chapters, st.name, st.words)
             IN  ParseState(flushed, HeadingName(ChapterTitleMatch(line), flushed), <<>>)
        ELSE IF kind = "worddef"
        THEN ParseState(st.chapters, st.name, RecordWord(st.words, WordDefMatch(line)))
        ELSE st

RECURSIVE ProcessLines(_, _)
ProcessLines(st, ls) == IF ls = <<>> THEN st ELSE ProcessLines(ProcessLine(st, Head(ls)), Tail(ls))

\* Lines 33-125.
ParseText(text) ==
    IF text = <<>> THEN <<>>
    ELSE LET st == ProcessLines(ParseState(<<>>, DefaultChapter, <<>>), SplitLines(text))
         IN  Finish(st.chapters, st.name, st.words).value

(***************************************************************************)
(* Two request threads calling parse_text_to_chapters, their steps         *)
(* interleaved, each thread calling again after it has returned.           *)
(***************************************************************************)
CallLines == {LnChapter2, LnFooBar, LnBlank}

CallTexts == {Join(ls) : ls \in UNION {[1..n -> CallLines] : n \in 0..MaxCallLines}}

\* No call of the single-call machine is in progress.
ParserIdle ==
    /\ raw_text = <<>>
    /\ pc = "idle"
    /\ lines = <<>>
    /\ idx = 1
    /\ chapters = <<>>
    /\ current_chapter_name = <<>>
    /\ current_words = <<>>
    /\ result = <<>>

InitCalls ==
    /\ ParserIdle
    /\ NoCalls
    /\ NoQuiz
    /\ NoApp

\* The list the name chapters is bound to when call p begins, if it were
\* an object shared with the other thread's call.
InitialChapters_Shared(cs, p) == cs[3 - p].chapters

\* Line 36: chapters = [] makes a new list for call p.
InitialChapters(cs, p) == <<>>

\* Thread p calls the function: a new frame, the frame of its earlier call
\* is gone.
Invoke(p, text) ==
    /\ calls[p].pc \in {"idle", "done"}
    /\ ncalls[p] < MaxCalls
    /\ calls' = [calls EXCEPT ![p] = Frame(text, "call")]
    /\ ncalls' = [ncalls EXCEPT ![p] = @ + 1]

\* Lines 33-34.
CallReturnEmptyInput(p) ==
    /\ calls[p].pc = "call"
    /\ calls[p].raw_text = <<>>
    /\ calls' = [calls EXCEPT ![p].result = <<>>, ![p].pc = "done"]
    /\ UNCHANGED ncalls

\* Lines 36-41.
CallBegin(p) ==
    /\ calls[p].pc = "call"
    /\ calls[p].raw_text # <<>>
    /\ calls' = [calls EXCEPT ![p].chapters = InitialChapters(calls, p),
                              ![p].current_chapter_name = DefaultChapter,
                              ![p].current_words = <<>>,
                              ![p].lines = SplitLines(calls[p].raw_text),
                              ![p].idx = 1,
                              ![p].pc = "loop"]
    /\ UNCHANGED ncalls

\* Lines 56-108: one pass of the loop body of call p.
CallLine(p) ==
    /\ calls[p].pc = "loop"
    /\ calls[p].idx <= Len(calls[p].lines)
    /\ LET f == calls[p]
           st == ProcessLine(ParseState(f.chapters, f.current_chapter_name, f.current_words), f.lines[f.idx])
       IN  calls' = [calls EXCEPT ![p].chapters = st.chapters,
                                 ![p].current_chapter_name = st.name,
                                 ![p].current_words = st.words,
                                 ![p].idx = f.idx + 1]
    /\ UNCHANGED ncalls

\* Lines 111-125.
CallReturn(p) ==
    /\ calls[p].pc = "loop"
    /\ calls[p].idx > Len(calls[p].lines)
    /\ LET r == Finish(calls[p].chapters, calls[p].current_chapter_name, calls[p].current_words)
       IN  calls' = [calls EXCEPT ![p].result = r.value,
                                 ![p].pc = IF r.raised THEN "raised" ELSE "done"]
    /\ UNCHANGED ncalls

InvokeStep == (\E p \in Procs, text \in CallTexts : Invoke(p, text)) /\ UNCHANGED nonCallVars

CallReturnEmptyInputStep == (\E p \in Procs : CallReturnEmptyInput(p)) /\ UNCHANGED nonCallVars

CallBeginStep == (\E p \in Procs : CallBegin(p)) /\ UNCHANGED nonCallVars

CallLineStep == (\E p \in Procs : CallLine(p)) /\ UNCHANGED nonCallVars

CallReturnStep == (\E p \in Procs : CallReturn(p)) /\ UNCHANGED nonCallVars

NextCalls ==
    \/ InvokeStep
    \/ CallReturnEmptyInputStep
    \/ CallBeginStep
    \/ CallLineStep
    \/ CallReturnStep

SpecCalls == InitCalls /\ [][NextCalls]_vars

(***************************************************************************)
(* generate_quiz_questions(words_in_chapter, num_options) of src/app.py    *)
(* and the grading loop of submit_quiz.                                    *)
(***************************************************************************)
\* Entries of a chapter's word list that are tried.
MaxTerms == 3

\* Values of num_options that are tried.
OptionCounts == {1, 2, 3}

QuizPairs == {<<<<"a">>, <<"c">>>>, <<<<"b">>, <<"d">>>>, <<<<"a">>, <<"e">>>>}

QuizWordLists == UNION {[1..n -> QuizPairs] : n \in 0..MaxTerms}

\* Line 101.
AllDefinitions(words) == [j \in DOMAIN words |-> words[j][2]]

\* The pool with the correct definition left in.
Distractors_All(words, correct_definition) == AllDefinitions(words)

\* Line 107.
Distractors(words, correct_definition) ==
    LET Differs(d) == d # correct_definition
    IN  SelectSeq(AllDefinitions(words), Differs)

\* random.sample(population, k): k elements at k different positions, in any order.
Sample(population, k) ==
    {[j \in 1..k |-> population[f[j]]] :
        f \in {g \in [1..k -> DOMAIN population] : \A x, y \in 1..k : x # y => g[x] # g[y]}}

\* random.shuffle(x): any order of the elements.
Shuffle(x) == {[j \in DOMAIN x |-> x[f[j]]] : f \in Permutations(DOMAIN x)}

\* The distractors taken whole whatever their number.
PickedDistractors_WholePool(distractors, n) == {distractors}

\* Lines 111-120.
PickedDistractors(distractors, n) ==
    IF Len(distractors) >= n - 1 THEN Sample(distractors, n - 1) ELSE {distractors}

\* Ids counted from one.
QuestionId_OneBased(i) == <<"q">> \o Decimal(i + 1)

\* Line 124: f'q{i}'.
QuestionId(i) == <<"q">> \o Decimal(i)

\* Lines 123-128.
Question(id, term, options, answer) == [id |-> id, term |-> term, options |-> options, answer |-> answer]

\* Lines 103-128: the questions one pass of the loop can append for entry
\* number i (counted from 0).
QuestionsOfEntry(words, i, n) ==
    LET term == words[i + 1][1]
        correct_definition == words[i + 1][2]
    IN  {Question(QuestionId(i), term, options, correct_definition) :
            options \in UNION {Shuffle(<<correct_definition>> \o picked) :
                                picked \in PickedDistractors(Distractors(words, correct_definition), n)}}

\* Line 176: user_answers.get(question_id).
FormGet(form, question_id) == IF question_id \in DOMAIN form THEN form[question_id] ELSE None

\* Line 185: the text shown for a question without an answer.
NoAnswerText == <<"no answer">>

\* Grading that lets a question without an answer pass.
GradeQuestion_MissingIsCorrect(question, form) ==
    LET user_answer == FormGet(form, question.id)
    IN  [term |-> question.term, options |-> question.options,
         your_answer |-> IF user_answer # None THEN user_answer ELSE NoAnswerText,
         correct_answer |-> question.answer,
         is_correct |-> (user_answer = None \/ user_answer = question.answer)]

\* Grading that takes the first option for the correct answer.
GradeQuestion_FirstOption(question, form) ==
    LET user_answer == FormGet(form, question.id)
    IN  [term |-> question.term, options |-> question.options,
         your_answer |-> IF user_answer # None THEN user_answer ELSE NoAnswerText,
         correct_answer |-> question.answer,
         is_correct |-> (user_answer = question.options[1])]

\* Lines 175-188.
GradeQuestion(question, form) ==
    LET user_answer == FormGet(form, question.id)
        correct_answer == question.answer
    IN  [term |-> question.term, options |-> question.options,
         your_answer |-> IF user_answer # None THEN user_answer ELSE NoAnswerText,
         correct_answer |-> correct_answer,
         is_correct |-> (user_answer = correct_answer)]

\* Lines 172-188: results.
GradeResults(qs, form) == [j \in DOMAIN qs |-> GradeQuestion(qs[j], form)]

\* Lines 171-180: score.
GradeScore(qs, form) == Cardinality({j \in DOMAIN qs : GradeResults(qs, form)[j].is_correct})

\* The field names of the form of a question set.
FormFields(qs) == {qs[j].id : j \in DOMAIN qs}

\* The question a form field belongs to.
QuestionOfField(qs, id) == qs[CHOOSE j \in DOMAIN qs : qs[j].id = id]

\* The form of a user who ticks the right option of every question, and of
\* one who ticks the first option of every question.
ExactForm(qs) == [id \in FormFields(qs) |-> QuestionOfField(qs, id).answer]

FirstOptionForm(qs) == [id \in FormFields(qs) |-> QuestionOfField(qs, id).options[1]]

\* The forms a browser posts: either user, having answered the first
\* questions up to any one and left the others unanswered.
Forms(qs) ==
    {[id \in {qs[j].id : j \in 1..m} |-> f[id]] :
        f \in {ExactForm(qs), FirstOptionForm(qs)}, m \in 0..Len(qs)}

InitQuiz ==
    /\ ParserIdle
    /\ NoCalls
    /\ NoApp
    /\ words_in_chapter \in QuizWordLists
    /\ num_options \in OptionCounts
    /\ qpc = "call"
    /\ qidx = 0
    /\ questions = <<>>
    /\ user_answers = <<>>
    /\ score = 0
    /\ results = <<>>

\* Lines 97-99.
GenerateReturnEmpty ==
    /\ qpc = "call"
    /\ words_in_chapter = <<>>
    /\ questions' = <<>>
    /\ qpc' = "returned"
    /\ UNCHANGED <<words_in_chapter, num_options, qidx, user_answers, score, results>>
    /\ UNCHANGED nonQuizVars

\* Lines 97-103.
GenerateBegin ==
    /\ qpc = "call"
    /\ words_in_chapter # <<>>
    /\ questions' = <<>>
    /\ qidx' = 0
    /\ qpc' = "loop"
    /\ UNCHANGED <<words_in_chapter, num_options, user_answers, score, results>>
    /\ UNCHANGED nonQuizVars

\* Lines 103-128.
GenerateQuestion ==
    /\ qpc = "loop"
    /\ qidx < Len(words_in_chapter)
    /\ \E q \in QuestionsOfEntry(words_in_chapter, qidx, num_options) :
            questions' = Append(questions, q)
    /\ qidx' = qidx + 1
    /\ UNCHANGED <<words_in_chapter, num_options, qpc, user_answers, score, results>>
    /\ UNCHANGED nonQuizVars

\* Line 129.
GenerateReturn ==
    /\ qpc = "loop"
    /\ qidx = Len(words_in_chapter)
    /\ qpc' = "returned"
    /\ UNCHANGED <<words_in_chapter, num_options, qidx, questions, user_answers, score, results>>
    /\ UNCHANGED nonQuizVars

\* Lines 165-167: no question set to grade.
GradeNothing ==
    /\ qpc = "returned"
    /\ questions = <<>>
    /\ qpc' = "not found"
    /\ UNCHANGED <<words_in_chapter, num_options, qidx, questions, user_answers, score, results>>
    /\ UNCHANGED nonQuizVars

\* Lines 170-191.
GradeSubmission ==
    /\ qpc = "returned"
    /\ questions # <<>>
    /\ \E form \in Forms(questions) :
            /\ user_answers' = form
            /\ score' = GradeScore(questions, form)
            /\ results' = GradeResults(questions, form)
    /\ qpc' = "graded"
    /\ UNCHANGED <<words_in_chapter, num_options, qidx, questions>>
    /\ UNCHANGED nonQuizVars

NextQuiz ==
    \/ GenerateReturnEmpty
    \/ GenerateBegin
    \/ GenerateQuestion
    \/ GenerateReturn
    \/ GradeNothing
    \/ GradeSubmission

SpecQuiz == InitQuiz /\ [][NextQuiz]_vars

(***************************************************************************)
(* The request handlers of src/app.py in one browser session.  The session *)
(* is a dictionary: a function from the keys that are set to their values. *)
(***************************************************************************)
\* The session keys.
ChaptersDataKey == <<"chapters_data">>

\* Lines 156 and 162: f'quiz_questions_{chapter_index}'.
QuizQuestionsKey(chapter_index) == <<"quiz_questions_", chapter_index>>

\* session[key] = value.
SessionSet(s, key, value) == [k \in DOMAIN s \cup {key} |-> IF k = key THEN value ELSE s[k]]

\* not session.get(key, None).
SessionFalsy(s, key) == key \notin DOMAIN s \/ s[key] = <<>>

\* The texts the extractor gets out of the uploaded documents.
DocTwoChapters == Join(ExampleLines)

DocNoHeading == Join(<<LnFooBar, LnBazQux>>)

Docs == {DocTwoChapters, DocNoHeading, Join(<<LnNoise>>), Join(<<LnSpaces>>), <<>>}

\* The file names of the uploads: none, a PDF, and two that are not.
Filenames == {<<>>, <<"a", ".", "p", "d", "f">>, <<"a", ".", "P", "D", "F">>, <<"a", ".", "t", "x", "t">>}

\* Line 36: str.endswith.
HasSuffix(str, suffix) ==
    Len(str) >= Len(suffix) /\ SubSeq(str, Len(str) - Len(suffix) + 1, Len(str)) = suffix

\* Chapter indexes in the URLs: those of the documents and one beyond.
ChapterIndexes == 0..SetMax({Len(ParseText(doc)) : doc \in Docs})

\* Lines 26-67: the POST requests to /upload.  extracted is the value of
\* extract_text_from_pdf for the file: a text, or None when it fails.
UploadRequests ==
    [kind : {"upload_pdf"}, has_file_part : BOOLEAN, filename : Filenames,
     readable : BOOLEAN, extracted : Docs \cup {None}]

Flash(message, category) == <<message, category>>

Redirect(endpoint, flashes) == [kind |-> "redirect", endpoint |-> endpoint, flashes |-> flashes]

Outcome(s, resp, parsed) == [session |-> s, response |-> resp, parser_invoked |-> parsed]

\* The test of line 42 left out.
ExtractionFailed_Never(req) == FALSE

\* Line 42: raw_text is None.
ExtractionFailed(req) == req.extracted = None

\* Lines 26-44: the upload has a file part, a name that ends in .pdf, a
\* file that can be read and a text extracted from it.
Accepted(req) ==
    /\ req.has_file_part
    /\ HasSuffix(req.filename, <<".", "p", "d", "f">>)
    /\ req.readable
    /\ req.extracted # None

\* UploadParsed that stores nothing when nothing was parsed.
UploadParsed_KeepsOnEmpty(s, req) ==
    LET parsed_chapters == ParseText(req.extracted)
    IN  IF parsed_chapters = <<>>
        THEN Outcome(s, Redirect("list_chapters", <<Flash("No chapters or words could be parsed from the PDF.", "warning")>>), TRUE)
        ELSE Outcome(SessionSet(s, ChaptersDataKey, parsed_chapters),
                     Redirect("list_chapters", <<Flash("Successfully parsed chapter(s).", "success")>>),
                     TRUE)

\* Lines 45-59.
UploadParsed(s, req) ==
    LET parsed_chapters == ParseText(req.extracted)
        empty_text == IF Strip(req.extracted) = <<>>
                      THEN <<Flash("Extracted text from PDF is empty.", "info")>>
                      ELSE <<>>
    IN  IF parsed_chapters = <<>>
        THEN Outcome(SessionSet(s, ChaptersDataKey, <<>>),
                     Redirect("list_chapters", empty_text \o <<Flash("No chapters or words could be parsed from the PDF.", "warning")>>),
                     TRUE)
        ELSE Outcome(SessionSet(s, ChaptersDataKey, parsed_chapters),
                     Redirect("list_chapters", empty_text \o <<Flash("Successfully parsed chapter(s).", "success")>>),
                     TRUE)

\* Lines 25-67.
UploadPdf(s, req) ==
    IF ~req.has_file_part
    THEN Outcome(s, Redirect("upload_pdf", <<Flash("No file part", "error")>>), FALSE)
    ELSE IF req.filename = <<>>
    THEN Outcome(s, Redirect("upload_pdf", <<Flash("No selected file", "error")>>), FALSE)
    ELSE IF ~HasSuffix(req.filename, <<".", "p", "d", "f">>)
    THEN Outcome(s, Redirect("upload_pdf", <<Flash("Invalid file type. Please upload a PDF file.", "error")>>), FALSE)
    ELSE IF ~req.readable
    THEN Outcome(s, Redirect("upload_pdf", <<Flash("An error occurred processing the PDF", "error")>>), FALSE)
    ELSE IF ExtractionFailed(req)
    THEN Outcome(s, Redirect("upload_pdf", <<Flash("Could not extract text from PDF. The file might be corrupted or empty.", "error")>>), FALSE)
    ELSE UploadParsed(s, req)

\* generate_quiz_questions as a whole: every list of questions it can return.
RECURSIVE QuestionLists(_, _, _)
QuestionLists(words, i, n) ==
    IF i = Len(words) THEN {<<>>}
    ELSE {<<q>> \o rest : q \in QuestionsOfEntry(words, i, n), rest \in QuestionLists(words, i + 1, n)}

GenerateQuizQuestions(words, n) == IF words = <<>> THEN {<<>>} ELSE QuestionLists(words, 0, n)

\* Line 92: the default of num_options.
DefaultNumOptions == 4

\* Lines 135 and 165: not chapters_data or chapter_index >= len(chapters_data).
ChapterNotFound(s, chapter_index) ==
    SessionFalsy(s, ChaptersDataKey) \/ chapter_index >= Len(s[ChaptersDataKey])

\* chapters_data[chapter_index], the index counted from 0.
ChapterAt(s, chapter_index) == s[ChaptersDataKey][chapter_index + 1]

\* Lines 133-158: the outcomes of GET /quiz/<chapter_index>.
TakeQuiz(s, chapter_index) ==
    IF ChapterNotFound(s, chapter_index)
    THEN {Outcome(s, Redirect("list_chapters", <<Flash("Chapter not found or PDF not processed yet.", "error")>>), FALSE)}
    ELSE LET chapter == ChapterAt(s, chapter_index)
             few == IF Len(chapter.words) < 2
                    THEN <<Flash("Chapter has very few words. Quiz options might be limited.", "warning")>>
                    ELSE <<>>
         IN  IF chapter.words = <<>>
             THEN {Outcome(s, Redirect("list_chapters", <<Flash("Chapter has no words for a quiz.", "info")>>), FALSE)}
             ELSE {IF quiz_questions = <<>>
                   THEN Outcome(s, Redirect("list_chapters", few \o <<Flash("Could not generate quiz questions for chapter.", "warning")>>), FALSE)
                   ELSE Outcome(SessionSet(s, QuizQuestionsKey(chapter_index), quiz_questions),
                                [kind |-> "render", template |-> "quiz.html", flashes |-> few,
                                 chapter_name |-> chapter.name, questions |-> quiz_questions,
                                 chapter_index |-> chapter_index],
                                FALSE) :
                   quiz_questions \in GenerateQuizQuestions(chapter.words, DefaultNumOptions)}

\* Lines 161-199: POST /submit_quiz/<chapter_index> with the form posted.
SubmitQuiz(s, chapter_index, form) ==
    IF SessionFalsy(s, QuizQuestionsKey(chapter_index)) \/ ChapterNotFound(s, chapter_index)
    THEN Outcome(s, Redirect("list_chapters", <<Flash("Quiz data not found or session expired. Please try again.", "error")>>), FALSE)
    ELSE LET original_questions == s[QuizQuestionsKey(chapter_index)]
         IN  Outcome(s,
                     [kind |-> "render", template |-> "quiz_results.html", flashes |-> <<>>,
                      chapter_name |-> ChapterAt(s, chapter_index).name,
                      score |-> GradeScore(original_questions, form),
                      num_questions |-> Len(original_questions),
                      results |-> GradeResults(original_questions, form),
                      chapter_index |-> chapter_index],
                     FALSE)

\* The forms posted to /submit_quiz/<chapter_index>: those of the quiz page
\* last rendered for the index, or an empty form.
PostedForms(s, chapter_index) ==
    IF QuizQuestionsKey(chapter_index) \in DOMAIN s THEN Forms(s[QuizQuestionsKey(chapter_index)]) ELSE {<<>>}

InitApp ==
    /\ ParserIdle
    /\ NoCalls
    /\ NoQuiz
    /\ NoApp

Respond(req, outcome) ==
    /\ request' = req
    /\ session' = outcome.session
    /\ response' = outcome.response
    /\ parser_invoked' = outcome.parser_invoked
    /\ last_processed' = IF req.kind = "upload_pdf" /\ Accepted(req) THEN req.extracted ELSE last_processed
    /\ UNCHANGED nonAppVars

\* POST /upload.
UploadPdfRequest == \E req \in UploadRequests : Respond(req, UploadPdf(session, req))

\* GET /quiz/<chapter_index>.
TakeQuizRequest ==
    \E chapter_index \in ChapterIndexes :
        \E outcome \in TakeQuiz(session, chapter_index) :
            Respond([kind |-> "take_quiz", chapter_index |-> chapter_index], outcome)

\* POST /submit_quiz/<chapter_index>.
SubmitQuizRequest ==
    \E chapter_index \in ChapterIndexes :
        \E form \in PostedForms(session, chapter_index) :
            Respond([kind |-> "submit_quiz", chapter_index |-> chapter_index, form |-> form],
                    SubmitQuiz(session, chapter_index, form))

NextApp ==
    \/ UploadPdfRequest
    \/ TakeQuizRequest
    \/ SubmitQuizRequest

SpecApp == InitApp /\ [][NextApp]_vars

(***************************************************************************)
(* C5: every heading line contributes exactly one chapter: the number of   *)
(* chapters returned is the number of heading lines, plus one if term      *)
(* pairs were recorded before the first heading.                           *)
(***************************************************************************)
LinesBeforeFirstHeading(ls) ==
    IF HeadingPositions(ls) = {} THEN ls ELSE SubSeq(ls, 1, SetMin(HeadingPositions(ls)) - 1)

ExpectedChapterCount(ls) ==
    Cardinality(HeadingPositions(ls)) + (IF PairsOf(LinesBeforeFirstHeading(ls)) # <<>> THEN 1 ELSE 0)

C5_OneChapterPerHeading ==
    pc = "done" => Len(result) = ExpectedChapterCount(StrippedLines(raw_text))

(***************************************************************************)
(* C6: no chapter of the result has the name "Default Chapter" and an      *)
(* empty term list; when the input has no heading and records no pair,     *)
(* the result is the empty list.                                           *)
(***************************************************************************)
C6_NoEmptyDefaultChapter ==
    pc = "done" =>
        /\ \A i \in DOMAIN result : ~IsEmptyDefault(result[i])
        /\ (/\ HeadingPositions(StrippedLines(raw_text)) = {}
            /\ PairsOf(StrippedLines(raw_text)) = <<>>) => result = <<>>

C6_Witness ==
    /\ pc = "done"
    /\ result # <<>>
    /\ PairsOf(StrippedLines(raw_text)) = <<>>
    /\ \E i \in DOMAIN lines : Strip(lines[i]) = LnChapterDefault

(***************************************************************************)
(* C7: the heading pattern has priority: a step that processes a line the  *)
(* heading pattern matches never records a term pair, also when the        *)
(* term-pair pattern matches the line too; it leaves the current term list *)
(* empty, at most appends the chapter accumulated so far to the output,    *)
(* and moves to the next line.                                             *)
(***************************************************************************)
C7_HeadingTakesPriority ==
    [][InLoop /\ IsHeadingLine(CurrentLine) =>
            /\ current_words' = <<>>
            /\ chapters' \in {chapters, Append(chapters, Chapter(current_chapter_name, current_words))}
            /\ current_chapter_name' = HeadingName(ChapterTitleMatch(CurrentLine), chapters')
            /\ idx' = idx + 1]_vars

C7_Witness ==
    /\ pc = "loop"
    /\ idx > 2
    /\ IsHeadingLine(Strip(lines[idx - 1]))
    /\ MatchesWordDef(Strip(lines[idx - 1]))
    /\ PairOf(Strip(lines[idx - 1]))[2] # <<>>
    /\ current_words = <<>>
    /\ chapters # <<>>
    /\ chapters[Len(chapters)].words # <<>>

(***************************************************************************)
(* C8: a blank line and a non-blank line that matches neither pattern      *)
(* change nothing: the chapter name, the term list and the emitted         *)
(* chapters are the same after the line, and the result is the result for  *)
(* the input with those lines removed.                                     *)
(***************************************************************************)
IsSkippedLine(l) == l = <<>> \/ (~ChapterTitleMatch(l).matched /\ ~WordDefMatch(l).matched)

IsKeptRawLine(rawline) == ~IsSkippedLine(Strip(rawline))

WithoutSkippedLines(text) == Join(SelectSeq(SplitLines(text), IsKeptRawLine))

C8_SkippedLinesChangeNothing ==
    /\ [](pc = "done" => result = ParseText(WithoutSkippedLines(raw_text)))
    /\ [][InLoop /\ IsSkippedLine(CurrentLine) =>
            UNCHANGED <<chapters, current_chapter_name, current_words>>]_vars

C8_Witness ==
    /\ pc = "done"
    /\ \E i \in DOMAIN lines : Strip(lines[i]) = <<>>
    /\ \E i \in DOMAIN lines : Strip(lines[i]) # <<>> /\ IsSkippedLine(Strip(lines[i]))
    /\ result # <<>>
    /\ result[1].words # <<>>

(***************************************************************************)
(* C9: every term entry, in the chapters emitted, in the current term list *)
(* and in the result, has a term and a definition that are non-empty and   *)
(* have no leading or trailing whitespace; a line whose term part or       *)
(* definition part is empty after trimming records no entry.               *)
(***************************************************************************)
IsTrimmedEntry(e) ==
    /\ e[1] # <<>> /\ e[2] # <<>>
    /\ Strip(e[1]) = e[1] /\ Strip(e[2]) = e[2]

AllEntriesTrimmed(chs) ==
    \A i \in DOMAIN chs : \A j \in DOMAIN chs[i].words : IsTrimmedEntry(chs[i].words[j])

C9_EntriesNonEmptyAndTrimmed ==
    /\ [](/\ AllEntriesTrimmed(chapters)
          /\ AllEntriesTrimmed(result)
          /\ \A j \in DOMAIN current_words : IsTrimmedEntry(current_words[j]))
    /\ [][InLoop /\ ~IsHeadingLine(CurrentLine) /\ MatchesWordDef(CurrentLine)
              /\ (PairOf(CurrentLine)[1] = <<>> \/ PairOf(CurrentLine)[2] = <<>>)
            => UNCHANGED <<chapters, current_words>>]_vars

C9_Witness ==
    /\ pc = "done"
    /\ \E i \in DOMAIN lines : Strip(lines[i]) = LnEmptyDef
    /\ \E i \in DOMAIN lines : lines[i] = LnPadded
    /\ result # <<>>
    /\ result[1].words # <<>>

(***************************************************************************)
(* C10: a line that is the chapter keyword alone is read as a heading and  *)
(* starts a chapter named "Unnamed Chapter n", n being 1 plus the number   *)
(* of chapters emitted at that point.                                      *)
(***************************************************************************)
IsKeywordAlone(l) == KeywordLen(l) > 0 /\ KeywordLen(l) = Len(l)

C10_KeywordAloneStartsUnnamedChapter ==
    [][InLoop /\ IsKeywordAlone(CurrentLine) =>
            /\ current_chapter_name' = UnnamedChapter(chapters')
            /\ current_words' = <<>>]_vars

(***************************************************************************)
(* C11: a tab-separated term line is read like the colon- and the          *)
(* hyphen-separated one: for every term, definition and optional           *)
(* whitespace before and after the separator, the line with a tab records  *)
(* the same entry as the line with a colon or a hyphen in its place.       *)
(***************************************************************************)
C11_TabLikeColonOrHyphen ==
    pc = "done" =>
        \A t \in SepTerms, d \in SepDefs, wb \in Pads, wa \in Pads :
            raw_text = SepLine(t, wb, "\t", wa, d) =>
                /\ result = ParseText(SepLine(t, wb, ":", wa, d))
                /\ result = ParseText(SepLine(t, wb, "-", wa, d))

(***************************************************************************)
(* C12: a heading made of the keyword and an identifier, with no title     *)
(* part, names its chapter with the full heading text, keyword included.   *)
(***************************************************************************)
IsKeywordAndIdentifier(l) ==
    /\ IsHeadingLine(l)
    /\ Strip(ChapterTitleMatch(l).g2) = <<>>
    /\ \A i \in DOMAIN Strip(ChapterTitleMatch(l).g1) : Strip(ChapterTitleMatch(l).g1)[i] \in WordChars

C12_NameIsFullHeadingText ==
    [][InLoop /\ IsKeywordAndIdentifier(CurrentLine) => current_chapter_name' = CurrentLine]_vars

(***************************************************************************)
(* C19: the flush rule.  On each heading line and once at the end of the   *)
(* input the chapter being accumulated is appended to the output exactly   *)
(* when its name is not "Default Chapter" or its term list is non-empty,   *)
(* and otherwise the output is unchanged; after a heading the current term *)
(* list is empty and the current name is the name of the new heading.      *)
(***************************************************************************)
FlushRule(chs, name, words) ==
    IF name # DefaultChapter \/ words # <<>> THEN Append(chs, Chapter(name, words)) ELSE chs

AtEndOfInput == pc = "loop" /\ idx > Len(lines)

C19_FlushRule ==
    [][/\ InLoop /\ IsHeadingLine(CurrentLine) =>
            /\ chapters' = FlushRule(chapters, current_chapter_name, current_words)
            /\ current_words' = <<>>
            /\ current_chapter_name' = HeadingName(ChapterTitleMatch(CurrentLine), chapters')
       /\ AtEndOfInput =>
            result' = FlushRule(chapters, current_chapter_name, current_words)]_vars

C19_Witness ==
    /\ pc = "done"
    /\ Len(result) >= 2
    /\ result[1].words = <<>>
    /\ result[2].words # <<>>

(***************************************************************************)
(* C20: no recorded pair is lost, duplicated or moved.  The pairs of the   *)
(* lines before the first heading and after each heading, in input order,  *)
(* are the term lists of the chapters returned, in order of appearance; a  *)
(* pair is appended to the list being accumulated, which is emitted whole  *)
(* under the current name at the next heading or the end of the input; a   *)
(* leading list of pairs is in a first chapter named "Default Chapter";    *)
(* two lines with the same term both stay.                                 *)
(***************************************************************************)
\* The lines between the headings: before the first, after each.
RECURSIVE Segments(_)
Segments(ls) ==
    IF ls = <<>> THEN << <<>> >>
    ELSE LET rest == Segments(Tail(ls))
         IN  IF IsHeadingLine(Head(ls)) THEN << <<>> >> \o rest
             ELSE << <<Head(ls)>> \o rest[1] >> \o Tail(rest)

IsNonEmptySeq(s) == s # <<>>

PairListsOf(ls) == SelectSeq([i \in DOMAIN Segments(ls) |-> PairsOf(Segments(ls)[i])], IsNonEmptySeq)

WordListsOf(chs) == SelectSeq([i \in DOMAIN chs |-> chs[i].words], IsNonEmptySeq)

C20_NoPairLostOrMoved ==
    /\ [](pc = "done" =>
            /\ WordListsOf(result) = PairListsOf(StrippedLines(raw_text))
            /\ PairsOf(Segments(StrippedLines(raw_text))[1]) # <<>> =>
                    result[1] = Chapter(DefaultChapter, PairsOf(Segments(StrippedLines(raw_text))[1])))
    /\ [][/\ InLoop /\ IsPairLine(CurrentLine) =>
                /\ current_words' = Append(current_words, PairOf(CurrentLine))
                /\ UNCHANGED <<chapters, current_chapter_name>>
          /\ InLoop /\ IsHeadingLine(CurrentLine) /\ current_words # <<>> =>
                chapters' = Append(chapters, Chapter(current_chapter_name, current_words))
          /\ AtEndOfInput =>
                /\ SubSeq(result', 1, Len(chapters)) = chapters
                /\ current_words # <<>> =>
                        result' = Append(chapters, Chapter(current_chapter_name, current_words))]_vars

C20_Witness ==
    /\ pc = "done"
    /\ Len(result) >= 2
    /\ Len(result[1].words) >= 2
    /\ result[1].words[1][1] = result[1].words[2][1]
    /\ result[1].name = DefaultChapter

(***************************************************************************)
(* C18: parse invocations are independent.  With two threads calling the   *)
(* function, their steps interleaved in any order and each thread calling  *)
(* again after earlier calls, every call that has returned has returned    *)
(* what the function returns when run alone on that call's input, and no   *)
(* call raises.                                                            *)
(***************************************************************************)
C18_InvocationsIndependent ==
    \A p \in Procs :
        /\ calls[p].pc # "raised"
        /\ calls[p].pc = "done" => calls[p].result = ParseText(calls[p].raw_text)

C18_Witness ==
    /\ ncalls[1] = 2
    /\ calls[1].pc = "done"
    /\ calls[1].result # <<>>
    /\ calls[2].pc = "loop"
    /\ calls[2].idx > 1
    /\ calls[2].chapters # <<>>
    /\ calls[2].raw_text # calls[1].raw_text

(***************************************************************************)
(* C13: generate_quiz_questions returns one question per input entry, in   *)
(* input order: question i (from 0) has id "q" followed by i in decimal,   *)
(* the term of entry i and, as correct answer, the definition of entry i;  *)
(* the ids of one result are distinct.                                     *)
(***************************************************************************)
C13_OneQuestionPerEntry ==
    qpc = "returned" =>
        /\ Len(questions) = Len(words_in_chapter)
        /\ \A k \in DOMAIN questions :
                /\ questions[k].id = <<"q">> \o Decimal(k - 1)
                /\ questions[k].term = words_in_chapter[k][1]
                /\ questions[k].answer = words_in_chapter[k][2]
        /\ \A k, l \in DOMAIN questions : k # l => questions[k].id # questions[l].id

C13_Witness ==
    /\ qpc = "returned"
    /\ Len(questions) = 3
    /\ questions[1].term = questions[3].term
    /\ questions[1].answer # questions[3].answer

(***************************************************************************)
(* C14: for every term list and every number of options of at least 1,     *)
(* whatever the random choices, every generated question has its correct   *)
(* answer among its options, and has at least 1 and at most num_options    *)
(* options.                                                                *)
(***************************************************************************)
C14_AnswerAmongBoundedOptions ==
    num_options >= 1 =>
        \A k \in DOMAIN questions :
            /\ \E j \in DOMAIN questions[k].options : questions[k].options[j] = questions[k].answer
            /\ Len(questions[k].options) >= 1
            /\ Len(questions[k].options) <= num_options

C14_Witness ==
    /\ qpc = "returned"
    /\ num_options = 2
    /\ Len(words_in_chapter) = 3
    /\ \E k \in DOMAIN questions :
            /\ Len(questions[k].options) = 2
            /\ Len(Distractors(words_in_chapter, questions[k].answer)) = 2

(***************************************************************************)
(* C15: the distractor pool of an entry is the definitions of the other    *)
(* entries whose text differs from the correct answer; the options are the *)
(* correct answer plus num_options - 1 pool elements taken without         *)
(* replacement when the pool is that large, otherwise plus the whole pool, *)
(* so the correct answer occurs exactly once among the options.  An empty  *)
(* term list gives no questions; a list of one entry gives one question    *)
(* whose options are its one definition.                                   *)
(***************************************************************************)
\* How many times x occurs in the sequence s.
Count(s, x) == Cardinality({j \in DOMAIN s : s[j] = x})

\* How many times x occurs in the pool of entry k: once for each other
\* entry whose definition is x, none if x is the correct answer.
CountInPool(words, k, x) ==
    IF x = words[k][2] THEN 0
    ELSE Cardinality({j \in DOMAIN words : j # k /\ words[j][2] = x})

PoolSize(words, k) == Cardinality({j \in DOMAIN words : j # k /\ words[j][2] # words[k][2]})

C15_OptionsFromPool ==
    /\ \A k \in DOMAIN questions :
        LET options == questions[k].options
            answer == words_in_chapter[k][2]
        IN  /\ Count(options, answer) = 1
            /\ \A j \in DOMAIN options :
                    options[j] # answer =>
                        Count(options, options[j]) <= CountInPool(words_in_chapter, k, options[j])
            /\ Len(options) = 1 + (IF PoolSize(words_in_chapter, k) >= num_options - 1
                                   THEN num_options - 1
                                   ELSE PoolSize(words_in_chapter, k))
    /\ qpc = "returned" /\ words_in_chapter = <<>> => questions = <<>>
    /\ qpc = "returned" /\ Len(words_in_chapter) = 1 =>
            /\ Len(questions) = 1
            /\ questions[1].options = <<words_in_chapter[1][2]>>

C15_Witness ==
    /\ qpc = "returned"
    /\ num_options = 3
    /\ Len(words_in_chapter) = 3
    /\ \E k \in DOMAIN questions :
            /\ Count(AllDefinitions(words_in_chapter), questions[k].answer) = 2
            /\ Len(questions[k].options) = 2

(***************************************************************************)
(* C16: round trip of generation and grading.  A submission that maps the  *)
(* id of every question of the set to that question's correct answer is    *)
(* graded with a score equal to the number of questions, and every         *)
(* question is marked correct.                                             *)
(***************************************************************************)
C16_ExactAnswersScoreFull ==
    (/\ qpc = "graded"
     /\ \A k \in DOMAIN questions : FormGet(user_answers, questions[k].id) = questions[k].answer)
        => /\ score = Len(questions)
           /\ Len(results) = Len(questions)
           /\ \A k \in DOMAIN results : results[k].is_correct

C16_Witness ==
    /\ qpc = "graded"
    /\ Len(questions) = 3
    /\ \A k \in DOMAIN questions : FormGet(user_answers, questions[k].id) = questions[k].answer
    /\ \E k \in DOMAIN questions : questions[k].options[1] # questions[k].answer
    /\ score = 3

(***************************************************************************)
(* C17: when text extraction fails (extract_text_from_pdf returns None),   *)
(* the upload handler reports the failure, does not call the parser, and   *)
(* leaves the parse result and the quiz question sets stored in the        *)
(* session as they were.                                                   *)
(***************************************************************************)
\* The request just answered is an upload that got as far as the extractor,
\* and the extractor returned None.
ExtractionJustFailed ==
    /\ request.kind = "upload_pdf"
    /\ request.has_file_part
    /\ HasSuffix(request.filename, <<".", "p", "d", "f">>)
    /\ request.readable
    /\ request.extracted = None

C17_ExtractionFailureKeepsSession ==
    [][ExtractionJustFailed' =>
            /\ response'.kind = "redirect"
            /\ response'.endpoint = "upload_pdf"
            /\ Len(response'.flashes) = 1
            /\ response'.flashes[1][2] = "error"
            /\ ~parser_invoked'
            /\ session' = session]_vars

C17_Witness ==
    /\ ExtractionJustFailed
    /\ ~parser_invoked
    /\ ChaptersDataKey \in DOMAIN session
    /\ session[ChaptersDataKey] # <<>>
    /\ QuizQuestionsKey(0) \in DOMAIN session

(***************************************************************************)
(* C21: emitted chapters are never mutated during the pass.  Once a        *)
(* chapter has been appended to the output list at some index, its name    *)
(* and its term list stay the same and it stays at that index through      *)
(* every later line of the parse and in the value returned; a pair         *)
(* recorded after the flush goes only into the new accumulation list.      *)
(***************************************************************************)
IsPrefixOf(s, t) == Len(s) <= Len(t) /\ SubSeq(t, 1, Len(s)) = s

C21_EmittedChaptersImmutable ==
    [][/\ InLoop => IsPrefixOf(chapters, chapters')
       /\ InLoop /\ IsPairLine(CurrentLine) =>
            /\ chapters' = chapters
            /\ current_words' = Append(current_words, PairOf(CurrentLine))
       /\ AtEndOfInput => IsPrefixOf(chapters, result')]_vars

C21_Witness ==
    /\ pc = "loop"
    /\ chapters # <<>>
    /\ chapters[1].words # <<>>
    /\ current_words # <<>>
    /\ current_words # chapters[1].words

(***************************************************************************)
(* C22: every chapter of every parse result has a non-empty name.  When a  *)
(* heading has no title part, the name is the label with at most one       *)
(* trailing separator character (colon, hyphen or en-dash) removed, and    *)
(* when that leaves the empty string, as for "Chapter -", the name is      *)
(* "Unnamed Chapter n" with n = 1 + the number of chapters already         *)
(* emitted.                                                                *)
(***************************************************************************)
\* The text of a heading line after the keyword.
HeadingRest(l) == Strip(SubSeq(l, KeywordLen(l) + 1, Len(l)))

\* The label of a heading: the text after the keyword without one trailing
\* separator character.
LabelOf(l) ==
    IF EndsWithSeparator(HeadingRest(l)) THEN Strip(DropLast(HeadingRest(l))) ELSE HeadingRest(l)

\* A heading with no title part: no colon or en-dash inside the label.
HasNoTitlePart(l) ==
    /\ IsHeadingLine(l)
    /\ \A i \in DOMAIN LabelOf(l) : LabelOf(l)[i] \notin {":", "ndash"}

C22_NamesNonEmptyAndLabelled ==
    /\ [](pc = "done" => \A i \in DOMAIN result : result[i].name # <<>>)
    /\ [][InLoop /\ HasNoTitlePart(CurrentLine) =>
            current_chapter_name' =
                IF LabelOf(CurrentLine) = <<>>
                THEN UnnamedPrefix \o Decimal(Len(chapters') + 1)
                ELSE LabelOf(CurrentLine)]_vars

(***************************************************************************)
(* C23: grading compares by exact text equality per question id.  The      *)
(* score is the number of stored questions whose submitted answer equals   *)
(* the correct answer, a question whose id is missing from the submission  *)
(* is marked incorrect, and the score is between 0 and the number of       *)
(* questions.                                                              *)
(***************************************************************************)
\* The submission carries, under the id of question k, its correct answer.
AnsweredRight(k) ==
    /\ questions[k].id \in DOMAIN user_answers
    /\ user_answers[questions[k].id] = questions[k].answer

C23_ScoreCountsExactAnswers ==
    qpc = "graded" =>
        /\ score = Cardinality({k \in DOMAIN questions : AnsweredRight(k)})
        /\ Len(results) = Len(questions)
        /\ \A k \in DOMAIN questions :
                /\ results[k].is_correct <=> AnsweredRight(k)
                /\ questions[k].id \notin DOMAIN user_answers => ~results[k].is_correct
        /\ score >= 0
        /\ score <= Len(questions)

C23_Witness ==
    /\ qpc = "graded"
    /\ Len(questions) = 3
    /\ score = 1
    /\ AnsweredRight(1)
    /\ questions[2].id \in DOMAIN user_answers
    /\ ~AnsweredRight(2)
    /\ questions[3].id \notin DOMAIN user_answers

(***************************************************************************)
(* C24: tri-state of the session's parse result.  After any sequence of    *)
(* requests, the stored result is absent exactly when no upload has got    *)
(* past extraction and parsing, it is the empty list exactly when the most *)
(* recent such upload parsed to nothing, and otherwise it is the parser's  *)
(* result for the most recent such upload; an upload rejected before       *)
(* parsing (no file, wrong file type, extraction failure) never changes    *)
(* it.                                                                     *)
(***************************************************************************)
C24_ParseResultTriState ==
    /\ [](/\ ChaptersDataKey \notin DOMAIN session <=> last_processed = None
          /\ last_processed # None =>
                /\ session[ChaptersDataKey] = ParseText(last_processed)
                /\ session[ChaptersDataKey] = <<>> <=> ParseText(last_processed) = <<>>)
    /\ [][(/\ request'.kind = "upload_pdf"
           /\ \/ ~request'.has_file_part
              \/ ~HasSuffix(request'.filename, <<".", "p", "d", "f">>)
              \/ request'.extracted = None)
            => /\ ChaptersDataKey \in DOMAIN session' <=> ChaptersDataKey \in DOMAIN session
               /\ ChaptersDataKey \in DOMAIN session =>
                    session'[ChaptersDataKey] = session[ChaptersDataKey]]_vars

C24_Witness ==
    /\ last_processed # None
    /\ session[ChaptersDataKey] = <<>>
    /\ QuizQuestionsKey(0) \in DOMAIN session
    /\ request.kind = "upload_pdf"
    /\ ~Accepted(request)

(***************************************************************************)
(* C25: after any sequence of upload, take-quiz and submit-quiz requests,  *)
(* whenever submit_quiz for chapter index i grades a stored question set,  *)
(* that set was generated from the terms of chapter i of the parse result  *)
(* now stored in the session, the chapter whose name is shown with the     *)
(* score; a later upload never leaves a question set of an earlier         *)
(* document gradable.                                                      *)
(***************************************************************************)
\* The last request was a submission and its question set was graded.
JustGraded ==
    /\ request.kind = "submit_quiz"
    /\ response.kind = "render"
    /\ response.template = "quiz_results.html"

C25_GradedSetIsOfStoredChapter ==
    JustGraded =>
        /\ response.chapter_name = ChapterAt(session, request.chapter_index).name
        /\ session[QuizQuestionsKey(request.chapter_index)] \in
                GenerateQuizQuestions(ChapterAt(session, request.chapter_index).words, DefaultNumOptions)

====
